---- MODULE Spec2Model ----
(***************************************************************************)
(* A model of the nix-parser crate's error-recovering parser core: the     *)
(* Partial<T> value (parser/partial.rs), its recovery combinators, and the *)
(* expression grammar built from them (parser/expr.rs, parser.rs,          *)
(* parser/expr/bind.rs).                                                   *)
(*                                                                         *)
(* A parser is a pure function from a token view to an IResult.  Rust      *)
(* closures and parser values are represented as tuples <<name, args...>>  *)
(* and run by Apply (parsers) and Call (closures).                         *)
(***************************************************************************)
EXTENDS Integers, Sequences, FiniteSets, TLC

VARIABLES input, op, arg, res

vars == <<input, op, arg, res>>

\* The largest number of tokens of an input.
MaxLen == 3

(***************************************************************************)
(* Option, Span, Error, IResult                                            *)
(***************************************************************************)
None == <<>>

Some(v) == <<v>>

\* Span::merge: from the smaller start to the larger end.
SpanMerge(a, b) ==
    <<IF a[1] <= b[1] THEN a[1] ELSE b[1], IF a[2] >= b[2] THEN a[2] ELSE b[2]>>

\* One diagnostic: its variant, the token text it names, its primary span.
Error(kind, token, span) == [kind |-> kind, token |-> token, span |-> span]

UnexpectedError(token, span) == Error("Unexpected", token, span)

Ok(rem, out) == [tag |-> "Ok", rem |-> rem, out |-> out, err |-> <<>>]

\* nom::Err::Error(err) and nom::Err::Failure(err).
Err(tag, err) == [tag |-> tag, rem |-> <<>>, out |-> <<>>, err |-> err]

\* A Rust panic (index out of bounds, unwrap on None) unwinds every caller.
Panic(what) == Err("Panic", <<Error("Panic", what, <<0, 0>>)>>)

\* A loop that repeats without changing its state never returns.
Diverges == Err("Diverges", <<>>)

(***************************************************************************)
(* Tokens                                                                  *)
(***************************************************************************)
\* The token kind the lexer gives a lexeme.
KindOf(lexeme) ==
    CASE lexeme \in {"a", "b", "c"} -> "Identifier"
      [] lexeme \in {"1", "2", "3"} -> "Integer"
      [] lexeme = "+" -> "Add"
      [] lexeme = "-" -> "Sub"
      [] lexeme = "*" -> "Mul"
      [] lexeme = "/" -> "Div"
      [] lexeme = "==" -> "IsEq"
      [] lexeme = "!=" -> "NotEq"
      [] lexeme = "<" -> "LessThan"
      [] lexeme = "<=" -> "LessThanEq"
      [] lexeme = ">" -> "GreaterThan"
      [] lexeme = ">=" -> "GreaterThanEq"
      [] lexeme = "&&" -> "LogicalAnd"
      [] lexeme = "||" -> "LogicalOr"
      [] lexeme = "++" -> "Concat"
      [] lexeme = "//" -> "Update"
      [] lexeme = "->" -> "Imply"
      [] lexeme = "!" -> "Not"
      [] lexeme = "if" -> "If"
      [] lexeme = "then" -> "Then"
      [] lexeme = "else" -> "Else"
      [] lexeme = "or" -> "Or"
      [] lexeme = "with" -> "With"
      [] lexeme = "assert" -> "Assert"
      [] lexeme = "inherit" -> "Inherit"
      [] lexeme = ":" -> "Colon"
      [] lexeme = "." -> "Dot"
      [] lexeme = "=" -> "Eq"
      [] lexeme = ";" -> "Semi"
      [] lexeme = "(" -> "LParen"
      [] lexeme = ")" -> "RParen"
      [] lexeme = "{" -> "LBrace"
      [] lexeme = "}" -> "RBrace"
      [] lexeme = "[" -> "LBracket"
      [] lexeme = "]" -> "RBracket"
      [] lexeme = "," -> "Comma"
      [] lexeme \in {"${a}", "${+}"} -> "Interpolation"
      [] lexeme \in {"#x", "#y"} -> "Comment"
      [] lexeme = "<eof>" -> "Eof"
      [] OTHER -> "Unknown"

\* The sub-token-stream an Interpolation token carries.
InnerOf(lexeme) ==
    CASE lexeme = "${a}" -> <<"a">>
      [] lexeme = "${+}" -> <<"+">>
      [] OTHER -> <<>>

\* Eof is zero-width; every other lexeme of the model is one byte wide.

\* Token i of the text starts at byte 2 * (i - 1): tokens are one space apart.
Token(lexeme, at) ==
    [kind |-> KindOf(lexeme), text |-> lexeme, span |-> <<at, at + (IF lexeme = "<eof>" THEN 0 ELSE 1)>>]

Lex(lexemes) == [i \in 1..Len(lexemes) |-> Token(lexemes[i], 2 * (i - 1))]

to_span(tokens) ==
    <<IF tokens = <<>> THEN 0 ELSE tokens[1].span[1],
      IF tokens = <<>> THEN 0 ELSE tokens[Len(tokens)].span[2]>>

description(token) ==
    CASE token.kind = "Eof" -> "<eof>"
      [] token.kind = "Comment" -> "comment"
      [] OTHER -> token.text

(***************************************************************************)
(* Partial<T>                                                              *)
(***************************************************************************)
RECURSIVE Call(_, _)
RECURSIVE map(_, _)
RECURSIVE flat_map(_, _)
RECURSIVE Apply(_, _)

new(value) == [value |-> value, errors |-> <<>>]

with_errors(value, errors) == [value |-> value, errors |-> errors]

has_errors(self) == self.errors # <<>>

errors(self) == IF has_errors(self) THEN Some(self.errors) ELSE None

extend_errors(self, error) == [self EXCEPT !.errors = @ \o error]

map(self, f) ==
    [value |-> IF self.value # None THEN Some(Call(f, self.value[1])) ELSE None,
     errors |-> self.errors]

\* flat_map with the closure's diagnostics put before the receiver's.
flat_map_errors_first(self, f) ==
    IF self.value # None
    THEN LET partial == Call(f, self.value[1])
         IN  [partial EXCEPT !.errors = partial.errors \o self.errors]
    ELSE with_errors(None, self.errors)

flat_map(self, f) ==
    IF self.value # None
    THEN LET partial == Call(f, self.value[1])
         IN  [partial EXCEPT !.errors = self.errors \o partial.errors]
    ELSE with_errors(None, self.errors)

\* verify without the `if self.has_errors()` guard of its first arm.
verify_ignoring_errors(self) ==
    IF self.value # None
    THEN [tag |-> "Ok", out |-> self.value[1], err |-> <<>>]
    ELSE [tag |-> "Err", out |-> <<>>, err |-> self.errors]

verify(self) ==
    CASE self.value # None /\ has_errors(self) ->
             [tag |-> "Err", out |-> <<>>, err |-> self.errors]
      [] self.value # None /\ ~has_errors(self) ->
             [tag |-> "Ok", out |-> self.value[1], err |-> <<>>]
      [] OTHER -> [tag |-> "Err", out |-> <<>>, err |-> self.errors]

RECURSIVE from_iter_loop(_, _, _)
\* The loop keeping `partials.value` None when no item held a value.
from_iter_loop_none_when_empty(iter, values, partials) ==
    IF iter = <<>>
    THEN [partials EXCEPT !.value = IF values = <<>> THEN None ELSE Some(values)]
    ELSE LET partial == Head(iter)
             partials1 == IF errors(partial) # None
                          THEN extend_errors(partials, errors(partial)[1])
                          ELSE partials
             values1 == IF partial.value # None
                        THEN Append(values, partial.value[1])
                        ELSE values
         IN  from_iter_loop(Tail(iter), values1, partials1)

from_iter_loop(iter, values, partials) ==
    IF iter = <<>>
    THEN [partials EXCEPT !.value = Some(values)]
    ELSE LET partial == Head(iter)
             partials1 == IF errors(partial) # None
                          THEN extend_errors(partials, errors(partial)[1])
                          ELSE partials
             values1 == IF partial.value # None
                        THEN Append(values, partial.value[1])
                        ELSE values
         IN  from_iter_loop(Tail(iter), values1, partials1)

from_iter(iter) == from_iter_loop(iter, <<>>, new(None))

RECURSIVE extend(_, _)
\* extend dropping the diagnostics of an item that has no value.
extend_values_only(self, iter) ==
    IF iter = <<>>
    THEN self
    ELSE LET partial == Head(iter)
             self1 == IF errors(partial) # None /\ partial.value # None
                      THEN extend_errors(self, errors(partial)[1])
                      ELSE self
             self2 == IF self1.value # None /\ partial.value # None
                      THEN [self1 EXCEPT !.value = Some(Append(@[1], partial.value[1]))]
                      ELSE self1
         IN  extend(self2, Tail(iter))

extend(self, iter) ==
    IF iter = <<>>
    THEN self
    ELSE LET partial == Head(iter)
             self1 == IF errors(partial) # None
                      THEN extend_errors(self, errors(partial)[1])
                      ELSE self
             self2 == IF self1.value # None /\ partial.value # None
                      THEN [self1 EXCEPT !.value = Some(Append(@[1], partial.value[1]))]
                      ELSE self1
         IN  extend(self2, Tail(iter))

(***************************************************************************)
(* nom's combinators, over parsers given as tuples                         *)
(***************************************************************************)
\* ParseError::from_error_kind for Errors: one entry at the input's span.
NomError(tokens, kind) == Error("Nom", kind, to_span(tokens))

take(count, tokens) ==
    IF Len(tokens) >= count
    THEN Ok(SubSeq(tokens, count + 1, Len(tokens)), SubSeq(tokens, 1, count))
    ELSE Err("Error", <<NomError(tokens, "Eof")>>)

\* What indexing an empty slice leaves in place of a token: the panic.

\* Tokens::current: the first token of the view's slice, `&self.tokens[0]`.
current(tokens) ==
    IF tokens = <<>>
    THEN [kind |-> "Panic", text |-> "index out of bounds", span |-> <<0, 0>>]
    ELSE tokens[1]

\* One generated token parser (tokens::op_add, tokens::eof, ...).
token(kind, tokens) ==
    LET r == take(1, tokens)
    IN  IF r.tag # "Ok" THEN r
        ELSE IF current(r.out).kind = kind THEN Ok(r.rem, current(r.out))
        ELSE Err("Error", <<Error("Expected", kind, to_span(r.out))>>)

preceded(first, second, tokens) ==
    LET r1 == Apply(first, tokens)
    IN  IF r1.tag # "Ok" THEN r1 ELSE Apply(second, r1.rem)

terminated(first, second, tokens) ==
    LET r1 == Apply(first, tokens)
        r2 == Apply(second, r1.rem)
    IN  IF r1.tag # "Ok" THEN r1
        ELSE IF r2.tag # "Ok" THEN r2
        ELSE Ok(r2.rem, r1.out)

pair(first, second, tokens) ==
    LET r1 == Apply(first, tokens)
        r2 == Apply(second, r1.rem)
    IN  IF r1.tag # "Ok" THEN r1
        ELSE IF r2.tag # "Ok" THEN r2
        ELSE Ok(r2.rem, <<r1.out, r2.out>>)

opt(f, tokens) ==
    LET r == Apply(f, tokens)
    IN  CASE r.tag = "Ok" -> Ok(r.rem, Some(r.out))
          [] r.tag = "Error" -> Ok(tokens, None)
          [] OTHER -> r

cut(f, tokens) ==
    LET r == Apply(f, tokens)
    IN  IF r.tag = "Error" THEN [r EXCEPT !.tag = "Failure"] ELSE r

RECURSIVE many0_loop(_, _, _)
many0_loop(f, acc, tokens) ==
    LET r == Apply(f, tokens)
    IN  CASE r.tag = "Error" -> Ok(tokens, acc)
          [] r.tag = "Ok" ->
                 IF r.rem = tokens
                 THEN Err("Error", <<NomError(tokens, "Many0")>>)
                 ELSE many0_loop(f, Append(acc, r.out), r.rem)
          [] OTHER -> r

many0(f, tokens) == many0_loop(f, <<>>, tokens)

\* alt over a tuple of parsers: the first that does not fail with Error.
RECURSIVE alt(_, _)
alt(choices, tokens) ==
    LET r == Apply(Head(choices), tokens)
    IN  IF r.tag = "Error" /\ Len(choices) > 1 THEN alt(Tail(choices), tokens) ELSE r

nom_map(f, g, tokens) ==
    LET r == Apply(f, tokens)
    IN  IF r.tag # "Ok" THEN r ELSE Ok(r.rem, Call(g, r.out))

\* What `Option::unwrap` on None leaves in place of a closure's value.
UnwrapNone == [kind |-> "Panic", text |-> "Option::unwrap on None", span |-> <<0, 0>>]

\* map(pair(first, second), g), for the result r1 of first on the input: a
\* panic in g unwinds through the parser.
map_pair(r1, second, g) ==
    IF r1.tag # "Ok" THEN r1
    ELSE LET r2 == Apply(second, r1.rem)
             out == Call(g, <<r1.out, r2.out>>)
         IN  IF r2.tag # "Ok" THEN r2
             ELSE IF out = UnwrapNone THEN Panic(UnwrapNone.text)
             ELSE Ok(r2.rem, out)

\* alt((first, ..)), for the result r of first and what the rest of the
\* alternatives give on the same input.
alt_else(r, otherwise) == IF r.tag # "Error" THEN r ELSE otherwise

separated_pair(first, sep, second, tokens) ==
    LET r1 == Apply(first, tokens)
        r2 == Apply(sep, r1.rem)
        r3 == Apply(second, r2.rem)
    IN  IF r1.tag # "Ok" THEN r1
        ELSE IF r2.tag # "Ok" THEN r2
        ELSE IF r3.tag # "Ok" THEN r3
        ELSE Ok(r3.rem, <<r1.out, r3.out>>)

\* The entry points run on the text: what is left of it under a token view is
\* the bytes from the view's first token to its end (Eof is zero-width).
input_len(tokens) == to_span(tokens)[2] - to_span(tokens)[1]

all_consuming(f, tokens) ==
    LET r == Apply(f, tokens)
    IN  IF r.tag # "Ok" THEN r
        ELSE IF input_len(r.rem) = 0 THEN r
        ELSE Err("Error", <<NomError(r.rem, "Eof")>>)

\* tokens::space: the lexer has dropped the whitespace between tokens.
space(tokens) == Ok(tokens, <<>>)

(***************************************************************************)
(* The recovery combinators of parser/partial.rs                           *)
(***************************************************************************)
\* expect_terminated without `partial.extend_errors(err)`.
expect_terminated_silent(f, term, tokens) ==
    LET t == terminated(f, term, tokens)
        r == Apply(f, tokens)
    IN  CASE t.tag = "Ok" -> Ok(t.rem, t.out)
          [] t.tag = "Error" -> IF r.tag # "Ok" THEN r ELSE Ok(r.rem, r.out)
          [] OTHER -> t

expect_terminated(f, term, tokens) ==
    LET t == terminated(f, term, tokens)
        r == Apply(f, tokens)
    IN  CASE t.tag = "Ok" -> Ok(t.rem, t.out)
          [] t.tag = "Error" ->
                 IF r.tag # "Ok" THEN r
                 ELSE Ok(r.rem, extend_errors(r.out, t.err))
          [] OTHER -> t

map_partial(partial, f, tokens) ==
    LET r == Apply(partial, tokens)
    IN  IF r.tag # "Ok" THEN r ELSE Ok(r.rem, map(r.out, f))

\* map_partial_spanned with the span of the first token of the input only.
map_partial_spanned_first_token(partial, f, tokens) ==
    LET r == Apply(partial, tokens)
        span == to_span(SubSeq(tokens, 1, 1))
    IN  IF r.tag # "Ok" THEN r ELSE Ok(r.rem, map(r.out, Append(f, span)))

map_partial_spanned(partial, f, tokens) ==
    LET r == Apply(partial, tokens)
        span == IF Len(r.rem) > 0
                THEN <<to_span(tokens)[1], to_span(r.rem)[1]>>
                ELSE to_span(tokens)
    IN  IF r.tag # "Ok" THEN r ELSE Ok(r.rem, map(r.out, Append(f, span)))

RECURSIVE many_till_partial_loop(_, _, _, _, _)
\* The loop with `errors.extend(err)` left out of the recovery branch.
many_till_partial_loop_unrecorded(f, g, partials, errs, tokens) ==
    LET gr == Apply(g, tokens)
        fr == Apply(f, tokens)
        skip == take(1, tokens)
    IN  CASE gr.tag = "Ok" ->
                 Ok(tokens, extend_errors(from_iter(partials), errs))
          [] gr.tag \in {"Failure", "Error"} ->
                 CASE fr.tag \in {"Failure", "Error"} ->
                          IF token("Eof", tokens).tag = "Ok"
                          THEN Ok(tokens, from_iter(partials))
                          ELSE IF skip.tag = "Ok"
                          THEN many_till_partial_loop(f, g, partials, errs, skip.rem)
                          ELSE Diverges
                   [] fr.tag = "Ok" ->
                          IF fr.rem = tokens
                          THEN Diverges
                          ELSE many_till_partial_loop(f, g, Append(partials, fr.out), errs, fr.rem)
                   [] OTHER -> fr
          [] OTHER -> gr

\* The loop returning no element when it stops at Eof.
many_till_partial_loop_eof_empty(f, g, partials, errs, tokens) ==
    LET gr == Apply(g, tokens)
        fr == Apply(f, tokens)
        skip == take(1, tokens)
    IN  CASE gr.tag = "Ok" ->
                 Ok(tokens, extend_errors(from_iter(partials), errs))
          [] gr.tag \in {"Failure", "Error"} ->
                 CASE fr.tag \in {"Failure", "Error"} ->
                          IF token("Eof", tokens).tag = "Ok"
                          THEN Ok(tokens, from_iter(<<>>))
                          ELSE IF skip.tag = "Ok"
                          THEN many_till_partial_loop(f, g, partials, errs \o fr.err, skip.rem)
                          ELSE Diverges
                   [] fr.tag = "Ok" ->
                          IF fr.rem = tokens
                          THEN Diverges
                          ELSE many_till_partial_loop(f, g, Append(partials, fr.out), errs, fr.rem)
                   [] OTHER -> fr
          [] OTHER -> gr

many_till_partial_loop(f, g, partials, errs, tokens) ==
    LET gr == Apply(g, tokens)
        fr == Apply(f, tokens)
        skip == take(1, tokens)
    IN  CASE gr.tag = "Ok" ->
                 Ok(tokens, extend_errors(from_iter(partials), errs))
          [] gr.tag \in {"Failure", "Error"} ->
                 CASE fr.tag \in {"Failure", "Error"} ->
                          IF token("Eof", tokens).tag = "Ok"
                          THEN Ok(tokens, from_iter(partials))
                          ELSE IF skip.tag = "Ok"
                          THEN many_till_partial_loop(f, g, partials, errs \o fr.err, skip.rem)
                          ELSE Diverges
                   [] fr.tag = "Ok" ->
                          IF fr.rem = tokens
                          THEN Diverges
                          ELSE many_till_partial_loop(f, g, Append(partials, fr.out), errs, fr.rem)
                   [] OTHER -> fr
          [] OTHER -> gr

many_till_partial(f, g, tokens) == many_till_partial_loop(f, g, <<>>, <<>>, tokens)

pair_partial(first, second, tokens) ==
    LET r1 == Apply(first, tokens)
        r2 == Apply(second, r1.rem)
    IN  IF r1.tag # "Ok" THEN r1
        ELSE IF r2.tag # "Ok" THEN r2
        ELSE Ok(r2.rem, flat_map(r1.out, <<"pair_with", r2.out>>))

RECURSIVE separated_list_partial_loop(_, _, _, _, _, _)
separated_list_partial_loop(sep, term, f, partials, errs, tokens) ==
    LET tr == Apply(term, tokens)
        fr == preceded(sep, f, tokens)
        skip == take(1, tokens)
    IN  CASE tr.tag = "Ok" ->
                 Ok(tokens, extend_errors(from_iter(partials), errs))
          [] tr.tag \in {"Failure", "Error"} ->
                 CASE fr.tag \in {"Failure", "Error"} ->
                          IF token("Eof", tokens).tag = "Ok"
                          THEN Ok(tokens, from_iter(partials))
                          ELSE IF skip.tag = "Ok"
                          THEN separated_list_partial_loop(sep, term, f, partials,
                                                           errs \o fr.err, skip.rem)
                          ELSE Diverges
                   [] fr.tag = "Ok" ->
                          IF fr.rem = tokens
                          THEN Diverges
                          ELSE separated_list_partial_loop(sep, term, f,
                                                           Append(partials, fr.out), errs, fr.rem)
                   [] OTHER -> fr
          [] OTHER -> tr

separated_list_partial(sep, term, f, tokens) ==
    LET first == Apply(f, tokens)
    IN  CASE first.tag = "Error" -> Ok(tokens, from_iter(<<>>))
          [] first.tag = "Failure" -> Err("Error", first.err)
          [] first.tag = "Ok" ->
                 separated_list_partial_loop(sep, term, f, <<first.out>>, <<>>, first.rem)
          [] OTHER -> first

\* What the doc comment of separated_list_partial calls it shorthand for:
\* pair(&f, many_till_partial(preceded(sep, &f), term)), then
\* first.flat_map(|f| rest.map(|r| once(f).chain(r).collect())).
separated_list_composition(sep, term, f, tokens) ==
    LET r == pair(f, <<"many_till_partial", <<"preceded", sep, f>>, term>>, tokens)
    IN  IF r.tag # "Ok" THEN r
        ELSE Ok(r.rem, flat_map(r.out[1], <<"chain_with", r.out[2]>>))

\* verify_full that lets a value through whatever errors came with it.
verify_full_lenient(f, tokens) ==
    LET r == Apply(f, tokens)
    IN  IF r.tag # "Ok" THEN r
        ELSE IF r.out.value # None THEN Ok(r.rem, r.out.value[1])
        ELSE Err("Error", r.out.errors)

verify_full(f, tokens) ==
    LET r == Apply(f, tokens)
        v == verify(r.out)
    IN  IF r.tag # "Ok" THEN r
        ELSE IF v.tag = "Ok" THEN Ok(r.rem, v.out)
        ELSE Err("Error", v.err)

(***************************************************************************)
(* The generic parameters F (an element parser) of the combinators: one    *)
(* parser per outcome an IResult<Partial<O>> can have, chosen by the text  *)
(* of the token it is applied to.                                          *)
(***************************************************************************)
elem(tokens) ==
    LET t == Head(tokens)
        e == <<UnexpectedError(description(t), t.span)>>
    IN  IF tokens = <<>> THEN Err("Error", <<NomError(tokens, "Eof")>>)
        ELSE CASE t.text = "good" -> Ok(Tail(tokens), new(Some(t)))
               [] t.text = "warn" -> Ok(Tail(tokens), with_errors(Some(t), e))
               [] t.text = "noval" -> Ok(Tail(tokens), with_errors(None, e))
               [] t.text = "fatal" -> Err("Failure", e)
               [] OTHER -> Err("Error", e)

(***************************************************************************)
(* AST nodes (ast.rs): a record per variant, `t` naming the variant        *)
(***************************************************************************)
ExprError(span) == [t |-> "Error", span |-> span]

ExprIdent(name, span) == [t |-> "Ident", name |-> name, span |-> span]

ExprLiteral(value, span) == [t |-> "Literal", value |-> value, span |-> span]

ExprParen(inner, span) == [t |-> "Paren", inner |-> inner, span |-> span]

ExprInterpolation(inner, span) == [t |-> "Interpolation", inner |-> inner, span |-> span]

ExprUnary(unary, e, span) == [t |-> "Unary", op |-> unary, expr |-> e, span |-> span]

ExprBinary(binop, lhs, rhs, span) ==
    [t |-> "Binary", op |-> binop, lhs |-> lhs, rhs |-> rhs, span |-> span]

ExprFnApp(function, argument, span) ==
    [t |-> "FnApp", function |-> function, argument |-> argument, span |-> span]

ExprProj(base, attr, fallback, span) ==
    [t |-> "Proj", base |-> base, attr |-> attr, fallback |-> fallback, span |-> span]

ExprIf(cond, body, fallback, span) ==
    [t |-> "If", cond |-> cond, body |-> body, fallback |-> fallback, span |-> span]

ExprWith(with, e, span) == [t |-> "With", with |-> with, expr |-> e, span |-> span]

ExprAssert(cond, e, span) == [t |-> "Assert", cond |-> cond, expr |-> e, span |-> span]

FnDeclSimple(name, body, span) ==
    [t |-> "FnDecl", name |-> name, body |-> body, span |-> span]

Formal(name, default, span) ==
    [t |-> "Formal", name |-> name, default |-> default, span |-> span]

FnDeclFormals(formals, ellipsis, extra, body, span) ==
    [t |-> "FnDeclFormals", formals |-> formals, ellipsis |-> ellipsis, extra |-> extra,
     body |-> body, span |-> span]

\* AttrPath::new: the span runs from the first segment to the last.
AttrPath(segments) ==
    [t |-> "AttrPath", segments |-> segments,
     span |-> IF segments = <<>> THEN <<0, 0>>
              ELSE SpanMerge(segments[1].span, segments[Len(segments)].span)]

Comment(text) == [t |-> "Comment", text |-> text]

SourceFile(comment, e) == [t |-> "SourceFile", comment |-> comment, expr |-> e]

BindSimple(comment, attr, e, span) ==
    [t |-> "BindSimple", comment |-> comment, attr |-> attr, expr |-> e, span |-> span]

(***************************************************************************)
(* The closures of the folds (expr.rs)                                     *)
(***************************************************************************)
\* lhs.flat_map(|lhs| rhs.map(|rhs| node(op, lhs, rhs, merge(lhs, rhs)))).
binary(binop, lhs, rhs) == flat_map(lhs, <<"with_lhs", binop, rhs>>)

\* rest.into_iter().fold(first, ..), each item of rest a right operand.
RECURSIVE fold(_, _, _)
fold(binop, first, rest) ==
    IF rest = <<>> THEN first
    ELSE fold(binop, binary(binop, first, Head(rest)), Tail(rest))

\* rest.into_iter().fold(first, ..), each item of rest an (op, rhs) pair.
RECURSIVE fold_ops(_, _)
\* fold_ops with the operands of every node exchanged.
fold_ops_exchanged(first, rest) ==
    IF rest = <<>> THEN first
    ELSE fold_ops(binary(Head(rest)[1], Head(rest)[2], first), Tail(rest))

fold_ops(first, rest) ==
    IF rest = <<>> THEN first
    ELSE fold_ops(binary(Head(rest)[1], first, Head(rest)[2]), Tail(rest))

\* exprs.into_iter().rev().fold(last, |lhs, rhs| Binary(op, lhs, rhs, ..)):
\* the accumulator is bound to lhs, the item taken from the back to rhs.
RECURSIVE fold_rev(_, _, _)
fold_rev(binop, lhs, exprs) ==
    IF exprs = <<>> THEN lhs
    ELSE LET rhs == exprs[Len(exprs)]
         IN  fold_rev(binop, ExprBinary(binop, lhs, rhs, SpanMerge(rhs.span, lhs.span)),
                      SubSeq(exprs, 1, Len(exprs) - 1))

(***************************************************************************)
(* The expression grammar (expr.rs), one operator per function, from the   *)
(* tightest level to the loosest.  The first parser of a pair and the      *)
(* alternatives of an alt are run on the input where they are written.     *)
(***************************************************************************)
\* error with the node spanning the whole input, not the token taken.
error_spanning_input(tokens) ==
    LET r == take(1, tokens)
        errs == <<UnexpectedError(description(current(r.out)), to_span(r.out))>>
    IN  IF r.tag # "Ok" THEN r
        ELSE IF current(r.out).kind = "Eof" THEN Err("Error", errs)
        ELSE Ok(r.rem, with_errors(Some(ExprError(to_span(tokens))), errs))

\* error returning the diagnostic without the Expr::Error node.
error_without_node(tokens) ==
    LET r == take(1, tokens)
        errs == <<UnexpectedError(description(current(r.out)), to_span(r.out))>>
    IN  IF r.tag # "Ok" THEN r
        ELSE IF current(r.out).kind = "Eof" THEN Err("Error", errs)
        ELSE Ok(r.rem, with_errors(None, errs))

error(tokens) ==
    LET r == take(1, tokens)
        errs == <<UnexpectedError(description(current(r.out)), to_span(r.out))>>
    IN  IF r.tag # "Ok" THEN r
        ELSE IF current(r.out).kind = "Panic" THEN Panic(current(r.out).text)
        ELSE IF current(r.out).kind = "Eof" THEN Err("Error", errs)
        ELSE Ok(r.rem, with_errors(Some(ExprError(to_span(r.out))), errs))

\* atomic::set, list, string, rec_set and let_set start with `{`, `[`, a string,
\* `rec` and `let`, which the lexemes of the model do not include.
atomic(tokens) ==
    alt_else(map_partial(<<"identifier">>, <<"Expr::from">>, tokens),
        alt_else(map_partial(<<"paren">>, <<"Expr::from">>, tokens),
            alt_else(map_partial(<<"interpolation">>, <<"Expr::from">>, tokens),
                     map_partial(<<"literal">>, <<"Expr::from">>, tokens))))

project(tokens) ==
    LET path == <<"preceded", <<"token", "Dot">>, <<"verify_full", <<"attr_path">>>>>>
    IN  map_pair(atomic(tokens), <<"opt", path>>, <<"ExprProj::new">>)

fn_app(tokens) ==
    map_pair(project(tokens), <<"many0", <<"project">>>>, <<"fold", "FnApp">>)

unary(tokens) ==
    LET neg == <<"map", <<"token", "Sub">>, <<"const", "Neg">>>>
        not == <<"map", <<"token", "Not">>, <<"const", "Not">>>>
        un == <<"pair_partial",
                <<"map", <<"opt", <<"alt", <<neg, not>>>>>>, <<"Partial::from">>>>,
                <<"fn_app">>>>
    IN  alt_else(map_partial_spanned(un, <<"ExprUnary::new">>, tokens), error(tokens))

concat(tokens) ==
    map_pair(unary(tokens), <<"many0", <<"preceded", <<"token", "Concat">>, <<"unary">>>>>>,
             <<"from_iter_fold_rev", "Concat">>)

product(tokens) ==
    LET mul == <<"map", <<"token", "Mul">>, <<"const", "Mul">>>>
        div == <<"map", <<"token", "Div">>, <<"const", "Div">>>>
    IN  map_pair(concat(tokens), <<"many0", <<"pair", <<"alt", <<mul, div>>>>, <<"concat">>>>>>,
                 <<"fold_ops">>)

sum(tokens) ==
    LET add == <<"map", <<"token", "Add">>, <<"const", "Add">>>>
        sub == <<"map", <<"token", "Sub">>, <<"const", "Sub">>>>
    IN  map_pair(product(tokens), <<"many0", <<"pair", <<"alt", <<add, sub>>>>, <<"product">>>>>>,
                 <<"fold_ops">>)

update(tokens) ==
    map_pair(sum(tokens), <<"many0", <<"preceded", <<"token", "Update">>, <<"sum">>>>>>,
             <<"from_iter_fold_rev", "Update">>)

compare(tokens) ==
    LET lte == <<"map", <<"token", "LessThanEq">>, <<"const", "LessThanEq">>>>
        lt == <<"map", <<"token", "LessThan">>, <<"const", "LessThan">>>>
        gte == <<"map", <<"token", "GreaterThanEq">>, <<"const", "GreaterThanEq">>>>
        gt == <<"map", <<"token", "GreaterThan">>, <<"const", "GreaterThan">>>>
    IN  map_pair(update(tokens),
                 <<"opt", <<"pair", <<"alt", <<lte, lt, gte, gt>>>>, <<"update">>>>>>,
                 <<"binary_opt">>)

equality(tokens) ==
    LET eq == <<"map", <<"token", "IsEq">>, <<"const", "Eq">>>>
        neq == <<"map", <<"token", "NotEq">>, <<"const", "NotEq">>>>
    IN  map_pair(compare(tokens), <<"opt", <<"pair", <<"alt", <<eq, neq>>>>, <<"compare">>>>>>,
                 <<"binary_opt">>)

or(tokens) ==
    map_pair(equality(tokens),
             <<"many0", <<"preceded", <<"token", "LogicalOr">>, <<"equality">>>>>>,
             <<"fold", "Or">>)

and(tokens) ==
    map_pair(or(tokens), <<"many0", <<"preceded", <<"token", "LogicalAnd">>, <<"or">>>>>>,
             <<"fold", "And">>)

imply(tokens) ==
    map_pair(and(tokens), <<"many0", <<"preceded", <<"token", "Imply">>, <<"and">>>>>>,
             <<"fold", "Impl">>)

if_else(tokens) ==
    LET then == <<"token", "Then">>
        else == <<"token", "Else">>
        cond == <<"alt", <<<<"error_expr_if", then, "keyword then">>, <<"expr">>>>>>
        cond_then == <<"expect_terminated", cond, then>>
        if_cond_then == <<"preceded", <<"token", "If">>, cond_then>>
        body == <<"alt", <<<<"error_expr_if", else, "keyword else">>, <<"expr">>>>>>
        body_else == <<"expect_terminated", body, else>>
        last == <<"alt", <<<<"error_expr_if", <<"token", "Eof">>, "<eof>">>, <<"expr">>>>>>
        block == <<"pair_partial", if_cond_then, <<"pair_partial", body_else, last>>>>
    IN  alt_else(map_partial_spanned(block, <<"ExprIf::new">>, tokens), imply(tokens))

\* stmt::let_in starts with the keyword `let`, which the lexemes of the model
\* do not include: on every input here it fails like the alternatives before it.
function(tokens) ==
    alt_else(map_partial(<<"fn_decl">>, <<"Expr::from">>, tokens),
        alt_else(map_partial(<<"with">>, <<"Expr::from">>, tokens),
            alt_else(map_partial(<<"assert">>, <<"Expr::from">>, tokens),
                     if_else(tokens))))

expr(tokens) == preceded(<<"many0", <<"token", "Comment">>>>, <<"function">>, tokens)

(***************************************************************************)
(* The parsers of expr/atomic.rs, attr.rs, func.rs, stmt.rs and util.rs,   *)
(* written from the grammar the specification gives for them               *)
(***************************************************************************)
identifier(tokens) == nom_map(<<"token", "Identifier">>, <<"Ident::from">>, tokens)

literal(tokens) == nom_map(<<"token", "Integer">>, <<"Literal::from">>, tokens)

paren(tokens) ==
    LET inner == <<"preceded", <<"token", "LParen">>, <<"expr">>>>
        closed == <<"expect_terminated", inner, <<"token", "RParen">>>>
    IN  map_partial_spanned(closed, <<"ExprParen::new">>, tokens)

\* The tokens an Interpolation token carries, at the token's own position.
interpolation(tokens) ==
    LET r == token("Interpolation", tokens)
        inner == Apply(<<"expr">>,
                       [i \in 1..Len(InnerOf(r.out.text)) |->
                            Token(InnerOf(r.out.text)[i], r.out.span[1])])
    IN  IF r.tag # "Ok" THEN r
        ELSE IF inner.tag # "Ok" THEN inner
        ELSE Ok(r.rem, map(inner.out, <<"ExprInterpolation::new", r.out.span>>))

\* A path is segment (`.` segment)*, a segment an identifier or `${..}`.
attr_path(tokens) ==
    LET segment == <<"alt", <<<<"identifier">>, <<"interpolation">>>>>>
        r == pair(segment, <<"many0", <<"preceded", <<"token", "Dot">>, segment>>>>, tokens)
    IN  IF r.tag # "Ok" THEN r
        ELSE Ok(r.rem, map(from_iter(<<r.out[1]>> \o r.out[2]), <<"AttrPath::new">>))

\* With the token next, an Expr::Error at it and its diagnostic; the token is
\* left for the terminator that follows.
error_expr_if(tok, found, tokens) ==
    LET r == Apply(tok, tokens)
        span == r.out.span
    IN  IF r.tag # "Ok" THEN r
        ELSE Ok(tokens, with_errors(Some(ExprError(span)), <<UnexpectedError(found, span)>>))

with(tokens) ==
    LET head == <<"preceded", <<"token", "With">>,
                  <<"expect_terminated", <<"expr">>, <<"token", "Semi">>>>>>
    IN  map_partial_spanned(<<"pair_partial", head, <<"expr">>>>, <<"ExprWith::new">>, tokens)

assert(tokens) ==
    LET head == <<"preceded", <<"token", "Assert">>,
                  <<"expect_terminated", <<"expr">>, <<"token", "Semi">>>>>>
    IN  map_partial_spanned(<<"pair_partial", head, <<"expr">>>>, <<"ExprAssert::new">>, tokens)

fn_decl(tokens) ==
    LET name == <<"terminated", <<"token", "Identifier">>, <<"token", "Colon">>>>
        head == <<"map", name, <<"Partial::from">>>>
    IN  map_partial_spanned(<<"pair_partial", head, <<"expr">>>>, <<"FnDeclSimple::new">>, tokens)

(***************************************************************************)
(* Bindings (expr/bind.rs) and the entry points (parser.rs)                *)
(***************************************************************************)
\* ToByteSpan for the rest of the text: `len().saturating_sub(1)` past start.
to_byte_span(tokens) ==
    <<to_span(tokens)[1],
      to_span(tokens)[1] + (IF input_len(tokens) >= 1 THEN input_len(tokens) - 1 ELSE 0)>>

\* tokens::ident_path: identifier (`.` identifier)*.
ident_path(tokens) ==
    LET ident == <<"token", "Identifier">>
        path == <<"pair", ident, <<"many0", <<"preceded", <<"token", "Dot">>, ident>>>>>>
    IN  nom_map(path, <<"IdentPath::from">>, tokens)

\* The text of a line comment: the line without its `#`.
CommentText(lexeme) == IF lexeme = "#x" THEN "x" ELSE "y"

\* The lines joined by newlines.

\* tokens::comment with the text of the last line only.
comment_last_line(tokens) ==
    LET r == many0(<<"token", "Comment">>, tokens)
    IN  IF r.tag # "Ok" THEN r
        ELSE IF r.out = <<>> THEN Err("Error", <<NomError(tokens, "Many1")>>)
        ELSE Ok(r.rem, Comment(<<CommentText(r.out[Len(r.out)].text)>>))

\* tokens::comment: a run of line comments with only whitespace between
\* them, as one Comment whose text is the lines' texts joined by newlines.
comment(tokens) ==
    LET r == many0(<<"token", "Comment">>, tokens)
    IN  IF r.tag # "Ok" THEN r
        ELSE IF r.out = <<>> THEN Err("Error", <<NomError(tokens, "Many1")>>)
        ELSE Ok(r.rem,
                Comment([i \in 1..(2 * Len(r.out) - 1) |->
                             IF i % 2 = 1 THEN CommentText(r.out[(i + 1) \div 2].text)
                             ELSE "\n"]))

\* tokens::space_until_final_comment: the whitespace before the last comment
\* block; whitespace is no token.
space_until_final_comment(tokens) == Ok(tokens, <<>>)

simple(tokens) ==
    LET doc == <<"opt", <<"terminated", <<"comment">>, <<"space">>>>>>
        lhs == <<"terminated", <<"ident_path">>, <<"space">>>>
        equals == <<"pair", <<"cut", <<"token", "Eq">>>>, <<"space">>>>
        rhs == <<"terminated", <<"map", <<"verify_full", <<"expr">>>>, <<"Box::new">>>>,
                 <<"cut", <<"token", "Semi">>>>>>
        b == <<"pair", doc, <<"separated_pair", lhs, equals, rhs>>>>
    IN  nom_map(b, <<"BindSimple::new", to_byte_span(tokens)>>, tokens)

\* The lexer's output for a text: its tokens, then Eof.
Tokenize(text) == Lex(text \o <<"<eof>">>)

\* `.map(|(_, binds)| binds).map_err(|e| format!("{:?}", e))`.
Result(r) ==
    [tag |-> IF r.tag \in {"Error", "Failure"} THEN "Err" ELSE r.tag,
     out |-> r.out, err |-> r.err]

parse_source_file(text) ==
    LET doc == <<"preceded", <<"space_until_final_comment">>, <<"opt", <<"comment">>>>>>
        e == <<"map", <<"preceded", <<"space">>, <<"verify_full", <<"expr">>>>>>, <<"Box::new">>>>
        file == <<"pair", doc, e>>
    IN  Result(Apply(<<"all_consuming", <<"map", file, <<"SourceFile::new">>>>>>,
                     Tokenize(text)))

parse_source_file_partial(text) ==
    LET doc == <<"preceded", <<"space_until_final_comment">>, <<"comment">>>>
        e == <<"map_partial", <<"preceded", <<"space">>, <<"expr">>>>, <<"Box::new">>>>
        file == <<"map", <<"pair", doc, e>>, <<"with_comment">>>>
    IN  Result(Apply(<<"all_consuming", <<"map_partial", file, <<"SourceFile::new">>>>>>,
                     Tokenize(text)))

parse_expr(text) ==
    LET p == <<"preceded", <<"space">>, <<"verify_full", <<"expr">>>>>>
    IN  Result(Apply(<<"all_consuming", p>>, Tokenize(text)))

parse_expr_partial(text) ==
    LET p == <<"preceded", <<"space">>, <<"expr">>>>
    IN  Result(Apply(<<"all_consuming", p>>, Tokenize(text)))

(***************************************************************************)
(* Running a parser value, calling a closure value                         *)
(***************************************************************************)
Apply(p, tokens) ==
    CASE p[1] = "token" -> token(p[2], tokens)
      [] p[1] = "take" -> take(p[2], tokens)
      [] p[1] = "preceded" -> preceded(p[2], p[3], tokens)
      [] p[1] = "terminated" -> terminated(p[2], p[3], tokens)
      [] p[1] = "pair" -> pair(p[2], p[3], tokens)
      [] p[1] = "opt" -> opt(p[2], tokens)
      [] p[1] = "cut" -> cut(p[2], tokens)
      [] p[1] = "many0" -> many0(p[2], tokens)
      [] p[1] = "alt" -> alt(p[2], tokens)
      [] p[1] = "map" -> nom_map(p[2], p[3], tokens)
      [] p[1] = "expect_terminated" -> expect_terminated(p[2], p[3], tokens)
      [] p[1] = "map_partial" -> map_partial(p[2], p[3], tokens)
      [] p[1] = "map_partial_spanned" -> map_partial_spanned(p[2], p[3], tokens)
      [] p[1] = "many_till_partial" -> many_till_partial(p[2], p[3], tokens)
      [] p[1] = "pair_partial" -> pair_partial(p[2], p[3], tokens)
      [] p[1] = "separated_list_partial" -> separated_list_partial(p[2], p[3], p[4], tokens)
      [] p[1] = "verify_full" -> verify_full(p[2], tokens)
      [] p[1] = "elem" -> elem(tokens)
      [] p[1] = "separated_pair" -> separated_pair(p[2], p[3], p[4], tokens)
      [] p[1] = "all_consuming" -> all_consuming(p[2], tokens)
      [] p[1] = "space" -> space(tokens)
      [] p[1] = "expr" -> expr(tokens)
      [] p[1] = "function" -> function(tokens)
      [] p[1] = "if_else" -> if_else(tokens)
      [] p[1] = "imply" -> imply(tokens)
      [] p[1] = "and" -> and(tokens)
      [] p[1] = "or" -> or(tokens)
      [] p[1] = "equality" -> equality(tokens)
      [] p[1] = "compare" -> compare(tokens)
      [] p[1] = "update" -> update(tokens)
      [] p[1] = "sum" -> sum(tokens)
      [] p[1] = "product" -> product(tokens)
      [] p[1] = "concat" -> concat(tokens)
      [] p[1] = "unary" -> unary(tokens)
      [] p[1] = "fn_app" -> fn_app(tokens)
      [] p[1] = "project" -> project(tokens)
      [] p[1] = "atomic" -> atomic(tokens)
      [] p[1] = "error" -> error(tokens)
      [] p[1] = "identifier" -> identifier(tokens)
      [] p[1] = "literal" -> literal(tokens)
      [] p[1] = "paren" -> paren(tokens)
      [] p[1] = "interpolation" -> interpolation(tokens)
      [] p[1] = "attr_path" -> attr_path(tokens)
      [] p[1] = "error_expr_if" -> error_expr_if(p[2], p[3], tokens)
      [] p[1] = "with" -> with(tokens)
      [] p[1] = "assert" -> assert(tokens)
      [] p[1] = "fn_decl" -> fn_decl(tokens)
      [] p[1] = "ident_path" -> ident_path(tokens)
      [] p[1] = "simple" -> simple(tokens)
      [] p[1] = "comment" -> comment(tokens)
      [] p[1] = "space_until_final_comment" -> space_until_final_comment(tokens)

Call(f, v) ==
    CASE f[1] = "pair_with" -> map(f[2], <<"tuple_after", v>>)
      [] f[1] = "tuple_after" -> <<f[2], v>>
      [] f[1] = "chain_with" -> map(f[2], <<"chain_after", v>>)
      [] f[1] = "chain_after" -> <<f[2]>> \o v
      [] f[1] = "Partial::from" -> new(Some(v))
      [] f[1] = "Expr::from" -> v
      [] f[1] = "Box::new" -> v
      [] f[1] = "const" -> f[2]
      [] f[1] = "binary_opt" ->
             IF v[2] = None THEN v[1] ELSE binary(v[2][1][1], v[1], v[2][1][2])
      [] f[1] = "with_lhs" -> map(f[3], <<"with_rhs", f[2], v>>)
      [] f[1] = "with_rhs" ->
             IF f[2] = "FnApp"
             THEN ExprFnApp(f[3], v, SpanMerge(f[3].span, v.span))
             ELSE ExprBinary(f[2], f[3], v, SpanMerge(f[3].span, v.span))
      [] f[1] = "fold" -> fold(f[2], v[1], v[2])
      [] f[1] = "fold_ops" -> fold_ops(v[1], v[2])
      [] f[1] = "from_iter_fold_rev" ->
             LET exprs == from_iter(<<v[1]>> \o v[2])
             IN  IF exprs.value[1] = <<>> THEN UnwrapNone
                 ELSE map(exprs, <<"pop_fold_rev", f[2]>>)
      [] f[1] = "pop_fold_rev" -> fold_rev(f[2], v[Len(v)], SubSeq(v, 1, Len(v) - 1))
      [] f[1] = "ExprUnary::new" ->
             IF v[1] # None THEN ExprUnary(v[1][1], v[2], f[2]) ELSE v[2]
      [] f[1] = "ExprIf::new" -> ExprIf(v[1], v[2][1], v[2][2], f[2])
      [] f[1] = "ExprProj::new" ->
             IF v[2] = None THEN v[1] ELSE map(v[1], <<"with_base", v[2][1]>>)
      [] f[1] = "with_base" -> ExprProj(v, f[2], None, SpanMerge(v.span, f[2].span))
      [] f[1] = "Ident::from" -> new(Some(ExprIdent(v.text, v.span)))
      [] f[1] = "Literal::from" -> new(Some(ExprLiteral(v.text, v.span)))
      [] f[1] = "ExprParen::new" -> ExprParen(v, f[2])
      [] f[1] = "ExprInterpolation::new" -> ExprInterpolation(v, f[2])
      [] f[1] = "AttrPath::new" -> AttrPath(v)
      [] f[1] = "ExprWith::new" -> ExprWith(v[1], v[2], f[2])
      [] f[1] = "ExprAssert::new" -> ExprAssert(v[1], v[2], f[2])
      [] f[1] = "FnDeclSimple::new" -> FnDeclSimple(v[1].text, v[2], f[2])
      [] f[1] = "IdentPath::from" -> AttrPath(<<v[1]>> \o v[2])
      [] f[1] = "BindSimple::new" -> BindSimple(v[1], v[2][1], v[2][2], f[2])
      [] f[1] = "SourceFile::new" -> SourceFile(v[1], v[2])
      [] f[1] = "with_comment" -> map(v[2], <<"tuple_after", Some(v[1])>>)

(***************************************************************************)
(* The combinators applied to every token view over a small alphabet       *)
(***************************************************************************)
Inputs(alphabet) == UNION {[1..n -> alphabet] : n \in 0..MaxLen}

Idle == Err("Idle", <<>>)


F == <<"elem">>

Term == <<"token", "RBracket">>

Sep == <<"token", "Comma">>

InitComb ==
    /\ input \in Inputs({"good", "warn", "noval", "bad", "fatal", "]", ",", "<eof>"})
    /\ op = "ready"
    /\ arg = None
    /\ res = Idle

Run(name, result) ==
    /\ op = "ready"
    /\ op' = name
    /\ res' = result
    /\ UNCHANGED <<input, arg>>

RunManyTillPartial ==
    Run("many_till_partial", Apply(<<"many_till_partial", F, Term>>, Lex(input)))

RunSeparatedListPartial ==
    Run("separated_list_partial", Apply(<<"separated_list_partial", Sep, Term, F>>, Lex(input)))

RunExpectTerminated ==
    Run("expect_terminated", Apply(<<"expect_terminated", F, Term>>, Lex(input)))

RunPairPartial == Run("pair_partial", Apply(<<"pair_partial", F, F>>, Lex(input)))

RunVerifyFull == Run("verify_full", Apply(<<"verify_full", F>>, Lex(input)))

\* A delimited body: the elements up to the closing delimiter, then the
\* delimiter.
RunDelimited ==
    Run("delimited",
        Apply(<<"expect_terminated", <<"many_till_partial", F, Term>>, Term>>, Lex(input)))

\* partial.verify() on the Partial a combinator returned.
Verify ==
    /\ op \in {"many_till_partial", "separated_list_partial", "expect_terminated",
               "pair_partial"}
    /\ res.tag = "Ok"
    /\ op' = "verify"
    /\ arg' = res.out
    /\ res' = verify(res.out)
    /\ UNCHANGED input

NextComb ==
    \/ RunManyTillPartial
    \/ RunSeparatedListPartial
    \/ RunExpectTerminated
    \/ RunPairPartial
    \/ RunVerifyFull
    \/ RunDelimited
    \/ Verify

SpecComb == InitComb /\ [][NextComb]_vars

(***************************************************************************)
(* The entry points applied to every text over small alphabets             *)
(***************************************************************************)

AtomAlphabet == {"a", "1", ".", "${a}", "${+}"}


\* A statement keyword, then at most MaxLen tokens.
KeywordInputs ==
    {<<k>> \o s : k \in {"if", "with", "assert"}, s \in Inputs({"then", "else", "a", ";", ":"})}

Init ==
    /\ input \in Inputs({"a", "1", "+", "-", "!", "++", "//", "#x"}) \cup Inputs(AtomAlphabet)
                     \cup KeywordInputs
    /\ op = "ready"
    /\ arg = None
    /\ res = Idle

ParseExpr == Run("parse_expr", parse_expr(input))

ParseExprPartial == Run("parse_expr_partial", parse_expr_partial(input))

Next ==
    \/ ParseExpr
    \/ ParseExprPartial

Spec == Init /\ [][Next]_vars

(***************************************************************************)
(* The parsers with a nested sub-parse: a projection's path, a binding's   *)
(* value                                                                   *)
(***************************************************************************)

\* The largest number of tokens of a binding.
MaxBind == 4

InitNested ==
    /\ input \in UNION {[1..n -> {"a", "=", ";", "+", "1", "."}] : n \in 0..MaxBind}
                     \cup Inputs(AtomAlphabet)
    /\ op = "ready"
    /\ arg = None
    /\ res = Idle

RunSimple == Run("simple", Apply(<<"simple">>, Tokenize(input)))

RunProject == Run("project", Apply(<<"project">>, Tokenize(input)))

\* The rest of the text from token k + 1 on, as the Span a parser is handed.
Fragment(k) == SubSeq(Lex(input), k + 1, Len(input))

RunToByteSpan ==
    /\ op = "ready"
    /\ \E k \in 0..Len(input) :
           /\ arg' = Some(k)
           /\ res' = to_byte_span(Fragment(k))
    /\ op' = "to_byte_span"
    /\ UNCHANGED input

NextNested ==
    \/ RunSimple
    \/ RunProject
    \/ RunToByteSpan

SpecNested == InitNested /\ [][NextNested]_vars

(***************************************************************************)
(* Display and PartialEq of the nodes (ast.rs): the printed text as the    *)
(* lexemes the lexer reads back from it                                    *)
(***************************************************************************)
\* Display for BinaryOp.
BinaryOpText(binop) ==
    CASE binop = "Add" -> "+"
      [] binop = "Sub" -> "-"
      [] binop = "Mul" -> "*"
      [] binop = "Div" -> "/"
      [] binop = "Eq" -> "=="
      [] binop = "NotEq" -> "!="
      [] binop = "LessThan" -> "<"
      [] binop = "LessThanEq" -> "<="
      [] binop = "GreaterThan" -> ">"
      [] binop = "GreaterThanEq" -> ">="
      [] binop = "And" -> "&&"
      [] binop = "Or" -> "||"
      [] binop = "Concat" -> "++"
      [] binop = "Update" -> "//"
      [] binop = "HasAttr" -> "?"
      [] binop = "Impl" -> "->"

\* Display for UnaryOp.
UnaryOpText(unop) == IF unop = "Neg" THEN "-" ELSE "!"

\* segments.join("."), over the printed segments.
RECURSIVE join(_)
join(texts) ==
    IF Len(texts) <= 1 THEN (IF texts = <<>> THEN <<>> ELSE texts[1])
    ELSE texts[1] \o <<".">> \o join(Tail(texts))

\* Display for Expr and the nodes below it.
RECURSIVE fmt(_)
fmt(e) ==
    CASE e.t = "Ident" -> <<e.name>>
      [] e.t = "Literal" -> <<e.value>>
      [] e.t = "Paren" -> <<"(">> \o fmt(e.inner) \o <<")">>
      [] e.t = "Interpolation" ->
             IF fmt(e.inner) = <<"a">> THEN <<"${a}">> ELSE <<"${..}">>
      [] e.t = "Unary" -> <<UnaryOpText(e.op)>> \o fmt(e.expr)
      [] e.t = "Binary" -> fmt(e.lhs) \o <<BinaryOpText(e.op)>> \o fmt(e.rhs)
      [] e.t = "FnApp" -> fmt(e.function) \o fmt(e.argument)
      [] e.t = "AttrPath" -> join([i \in 1..Len(e.segments) |-> fmt(e.segments[i])])
      [] e.t = "Proj" ->
             IF e.fallback # None
             THEN fmt(e.base) \o <<".">> \o fmt(e.attr) \o <<"or">> \o fmt(e.fallback[1])
             ELSE fmt(e.base) \o <<".">> \o fmt(e.attr)
      [] e.t = "If" ->
             <<"if">> \o fmt(e.cond) \o <<"then">> \o fmt(e.body) \o <<"else">>
                 \o fmt(e.fallback)
      [] e.t = "Assert" -> <<"assert">> \o fmt(e.cond) \o <<";">> \o fmt(e.expr)
      [] e.t = "With" -> <<"with">> \o fmt(e.with) \o <<";">> \o fmt(e.expr)
      [] e.t = "FnDecl" -> <<e.name, ":">> \o fmt(e.body)
      [] e.t = "Error" -> <<"<error>">>

\* PartialEq for Expr and the nodes below it: the spans of the nodes, and the
\* fallback of a projection, are not compared.
RECURSIVE eq(_, _)
eq(self, other) ==
    /\ self.t = other.t
    /\ CASE self.t = "Ident" -> self.name = other.name
         [] self.t = "Literal" -> self.value = other.value
         [] self.t \in {"Paren", "Interpolation"} -> eq(self.inner, other.inner)
         [] self.t = "Unary" -> self.op = other.op /\ eq(self.expr, other.expr)
         [] self.t = "Binary" ->
                self.op = other.op /\ eq(self.lhs, other.lhs) /\ eq(self.rhs, other.rhs)
         [] self.t = "FnApp" ->
                eq(self.function, other.function) /\ eq(self.argument, other.argument)
         [] self.t = "AttrPath" ->
                /\ Len(self.segments) = Len(other.segments)
                /\ \A i \in 1..Len(self.segments) : eq(self.segments[i], other.segments[i])
         [] self.t = "Proj" -> eq(self.base, other.base) /\ eq(self.attr, other.attr)
         [] self.t = "If" ->
                /\ eq(self.cond, other.cond)
                /\ eq(self.body, other.body)
                /\ eq(self.fallback, other.fallback)
         [] self.t = "Assert" -> eq(self.cond, other.cond) /\ eq(self.expr, other.expr)
         [] self.t = "With" -> eq(self.with, other.with) /\ eq(self.expr, other.expr)
         [] self.t = "FnDecl" -> self.name = other.name /\ eq(self.body, other.body)
         [] self.t = "Formal" ->
                /\ eq(self.name, other.name)
                /\ (self.default = None) = (other.default = None)
                /\ self.default # None /\ other.default # None
                       => eq(self.default[1], other.default[1])
         [] self.t = "FnDeclFormals" ->
                /\ Len(self.formals) = Len(other.formals)
                /\ \A i \in 1..Len(self.formals) : eq(self.formals[i], other.formals[i])
                /\ (self.ellipsis # None /\ other.ellipsis # None)
                /\ eq(self.body, other.body)
         [] self.t = "Error" -> self.span = other.span

(***************************************************************************)
(* The entry points and a binding applied to texts of a given form:        *)
(* operands joined by binary operators, prefix operators before an         *)
(* operand, a projection with or without `or`, a binding of a chain        *)
(***************************************************************************)
Operands == {"a", "1"}


\* The largest number of operands of a chain.
MaxOperands == 3

\* The largest number of segments of a projection's path.
MaxSegments == 2

\* n operands joined by n - 1 binary operators.
RECURSIVE Chains(_)
Chains(n) ==
    IF n = 1 THEN {<<x>> : x \in Operands}
    ELSE {c \o <<o, x>> : c \in Chains(n - 1),
                           o \in {"+", "-", "*", "/", "||", "&&", "//", "++"}, x \in Operands}


PrefixInputs ==
    {p \o <<x>> : p \in UNION {[1..n -> {"-", "!"}] : n \in 1..MaxLen}, x \in Operands}

\* `a`, then n segments `. b` or `. c`.
RECURSIVE Paths(_)
Paths(n) ==
    IF n = 0 THEN {<<"a">>}
    ELSE {q \o <<".", seg>> : q \in Paths(n - 1), seg \in {"b", "c"}}

PathInputs ==
    {q \o tail : q \in UNION {Paths(n) : n \in 1..MaxSegments},
                 tail \in {<<>>} \cup {<<"or", x>> : x \in Operands}}

InitForms ==
    /\ input \in UNION {Chains(n) : n \in 1..MaxOperands} \cup PrefixInputs \cup PathInputs
                     \cup {q \o <<"=">> \o c \o <<";">> :
                               q \in Paths(0) \cup Paths(1),
                               c \in UNION {Chains(n) : n \in 1..(MaxOperands - 1)}}
                     \cup Inputs(AtomAlphabet) \cup KeywordInputs
    /\ op = "ready"
    /\ arg = None
    /\ res = Idle

NextForms ==
    \/ ParseExpr
    \/ ParseExprPartial
    \/ RunSimple

SpecForms == InitForms /\ [][NextForms]_vars

(***************************************************************************)
(* Properties of the combinators                                           *)
(***************************************************************************)
ToSet(seq) == {seq[i] : i \in 1..Len(seq)}

\* The first index of a token of the kind, or 0.
FirstOf(kind, tokens) ==
    IF \E i \in 1..Len(tokens) : tokens[i].kind = kind
    THEN CHOOSE i \in 1..Len(tokens) :
             /\ tokens[i].kind = kind
             /\ \A j \in 1..(i - 1) : tokens[j].kind # kind
    ELSE 0

\* The terminator comes first: no Eof before it.
TermFirst(tokens) ==
    /\ FirstOf("RBracket", tokens) > 0
    /\ FirstOf("Eof", tokens) \in {0} \cup (FirstOf("RBracket", tokens)..Len(tokens))

\* Eof comes first: no terminator before it.
EofFirst(tokens) ==
    /\ FirstOf("Eof", tokens) > 0
    /\ FirstOf("RBracket", tokens) \in {0} \cup (FirstOf("Eof", tokens)..Len(tokens))

HasValue(t) == t.text \in {"good", "warn"}

HasDiagnostic(t) == t.text # "good"

DiagnosticOf(t) == UnexpectedError(description(t), t.span)

IsSorted(errs) ==
    \A i, j \in 1..Len(errs) : i < j => errs[i].span[1] <= errs[j].span[1]

\* C2: Partial::verify returns Ok(v) exactly when the partial holds a value v
\* and no errors; otherwise it returns Err with exactly the partial's errors.
C2_Verify ==
    op = "verify" =>
        /\ (res.tag = "Ok") <=> (arg.value # None /\ arg.errors = <<>>)
        /\ res.tag = "Ok" => res.out = arg.value[1]
        /\ res.tag # "Ok" => res.tag = "Err" /\ res.err = arg.errors

\* A partial with a value and with errors was verified, and refused.
C2_Witness ==
    /\ op = "verify"
    /\ arg.value # None
    /\ arg.errors # <<>>
    /\ res.tag = "Err"

\* C3: in many_till_partial(elem, end), a token where elem fails (not the end
\* token, not Eof) costs exactly one token and leaves its diagnostics; when end
\* matches, the rest of the input still starts at the end token, the value lists
\* the values of the elements parsed, in source order, and the errors are all
\* the diagnostics recorded (the elements' and the skipped tokens').
C3_ManyTillStopsAtEnd ==
    LET tokens == Lex(input)
        k == FirstOf("RBracket", tokens)
        before == SubSeq(tokens, 1, k - 1)
    IN  (op = "many_till_partial" /\ TermFirst(tokens)) =>
            /\ res.tag = "Ok"
            /\ res.rem = SubSeq(tokens, k, Len(tokens))
            /\ res.out.value = Some(SelectSeq(before, HasValue))
            /\ Len(res.out.errors) = Len(SelectSeq(before, HasDiagnostic))
            /\ ToSet(res.out.errors) = {DiagnosticOf(t) : t \in ToSet(SelectSeq(before, HasDiagnostic))}

\* A failing token was skipped, the element after it parsed, and end matched.
C3_Witness ==
    /\ op = "many_till_partial"
    /\ input = <<"bad", "warn", "]">>
    /\ res.tag = "Ok"
    /\ Len(res.out.value[1]) = 1
    /\ Len(res.out.errors) = 2
    /\ Len(res.rem) = 1

\* The result of the list combinator `name` on the tokens.
ListResult(name, tokens) ==
    IF name = "many_till_partial"
    THEN many_till_partial(F, Term, tokens)
    ELSE separated_list_partial(Sep, Term, F, tokens)

\* C4: a list loop that reaches Eof before its terminator returns Ok with the
\* elements parsed so far and every diagnostic accumulated so far, those of the
\* tokens skipped earlier included: what it returns had the terminator stood
\* where Eof stands.
C4_EofKeepsDiagnostics ==
    LET tokens == Lex(input)
        e == FirstOf("Eof", tokens)
        closed == ListResult(op, Lex([input EXCEPT ![e] = "]"]))
    IN  (op \in {"many_till_partial", "separated_list_partial"} /\ EofFirst(tokens)
            /\ closed.tag = "Ok") =>
            /\ res.tag = "Ok"
            /\ res.out.value = closed.out.value
            /\ ToSet(res.out.errors) = ToSet(closed.out.errors)

C6_PairPartial ==
    LET tokens == Lex(input)
        p == elem(tokens)
        q == elem(p.rem)
    IN  (op = "pair_partial" /\ p.tag = "Ok" /\ q.tag = "Ok") =>
            /\ res.tag = "Ok"
            /\ res.rem = q.rem
            /\ (res.out.value # None) <=> (p.out.value # None /\ q.out.value # None)
            /\ res.out.value # None => res.out.value[1] = <<p.out.value[1], q.out.value[1]>>
            /\ res.out.errors = p.out.errors \o q.out.errors

\* C8: the diagnostics of the returned Partial are ordered by the start of their
\* primary span; those recorded for skipped tokens come before those of the
\* elements parsed later in the input.
C8_DiagnosticsSorted ==
    (op \in {"many_till_partial", "separated_list_partial"} /\ res.tag = "Ok") =>
        IsSorted(res.out.errors)

(***************************************************************************)
(* Properties of the entry points and of the nested parsers                *)
(***************************************************************************)
\* C1: parse_expr returns Ok(e) exactly when parse_expr_partial returns a
\* Partial whose value is e and whose diagnostics are empty; in every other
\* case parse_expr returns an error.
C1_StrictIffClean ==
    LET p == parse_expr_partial(input)
    IN  op = "parse_expr" =>
            /\ (res.tag = "Ok") <=>
                   (p.tag = "Ok" /\ p.out.value # None /\ p.out.errors = <<>>)
            /\ res.tag = "Ok" => res.out = p.out.value[1]
            /\ res.tag # "Ok" => res.tag = "Err"

\* The best-effort entry point gives a value with diagnostics, and the strict
\* one refuses the same text.
C1_Witness ==
    /\ op = "parse_expr"
    /\ res.tag = "Err"
    /\ parse_expr_partial(input).tag = "Ok"
    /\ parse_expr_partial(input).out.value # None
    /\ parse_expr_partial(input).out.errors # <<>>

\* What precedes a binding's value: the comment, the path and the `=`.
BindHead(tokens) ==
    pair(<<"opt", <<"token", "Comment">>>>,
         <<"pair", <<"ident_path">>, <<"cut", <<"token", "Eq">>>>>>, tokens)

\* The nested sub-parse gave a value that carries diagnostics.
Degraded(r) == r.tag = "Ok" /\ r.out.value # None /\ r.out.errors # <<>>

\* The enclosing parser returned Ok with a Partial that holds the diagnostics.
Keeps(r, errs) ==
    /\ r.tag = "Ok"
    /\ "errors" \in DOMAIN r.out
    /\ ToSet(errs) \subseteq ToSet(r.out.errors)

\* C7: no parser below the entry point lifts a partial result to a hard
\* failure: when the attribute path of a projection, or the value of a binding,
\* parses to a value carrying diagnostics, the enclosing parser (project,
\* simple) returns Ok and its Partial keeps those diagnostics.
C7_NestedDiagnosticsKept ==
    LET tokens == Tokenize(input)
        head == BindHead(tokens)
        value == expr(head.rem)
        base == atomic(tokens)
        dot == token("Dot", base.rem)
        path == attr_path(dot.rem)
    IN  /\ (op = "simple" /\ head.tag = "Ok" /\ Degraded(value)) =>
               Keeps(res, value.out.errors)
        /\ (op = "project" /\ base.tag = "Ok" /\ dot.tag = "Ok" /\ Degraded(path)) =>
               Keeps(res, path.out.errors)

RECURSIVE ErrorSpans(_)
ErrorSpans(e) ==
    CASE e.t = "Error" -> {e.span}
      [] e.t \in {"Paren", "Interpolation"} -> ErrorSpans(e.inner)
      [] e.t = "Unary" -> ErrorSpans(e.expr)
      [] e.t = "Binary" -> ErrorSpans(e.lhs) \cup ErrorSpans(e.rhs)
      [] e.t = "FnApp" -> ErrorSpans(e.function) \cup ErrorSpans(e.argument)
      [] e.t = "Proj" ->
             ErrorSpans(e.base) \cup UNION {ErrorSpans(seg) : seg \in ToSet(e.attr.segments)}
      [] e.t = "If" -> ErrorSpans(e.cond) \cup ErrorSpans(e.body) \cup ErrorSpans(e.fallback)
      [] e.t = "With" -> ErrorSpans(e.with) \cup ErrorSpans(e.expr)
      [] e.t = "Assert" -> ErrorSpans(e.cond) \cup ErrorSpans(e.expr)
      [] e.t = "FnDecl" -> ErrorSpans(e.body)
      [] OTHER -> {}

\* C10: every Expr::Error(span) of the tree a parse returns has, among the
\* diagnostics of the same Partial, an unexpected-token diagnostic with the
\* same span.
C10_ErrorNodesPaired ==
    (op = "parse_expr_partial" /\ res.tag = "Ok" /\ res.out.value # None) =>
        \A span \in ErrorSpans(res.out.value[1]) :
            \E i \in 1..Len(res.out.errors) :
                /\ res.out.errors[i].kind = "Unexpected"
                /\ res.out.errors[i].span = span

\* A tree with two Expr::Error nodes at different places came back.
C10_Witness ==
    /\ op = "parse_expr_partial"
    /\ res.tag = "Ok"
    /\ res.out.value # None
    /\ Cardinality(ErrorSpans(res.out.value[1])) >= 2

(***************************************************************************)
(* Properties of the trees                                                 *)
(***************************************************************************)
\* The nodes directly below a node.
Children(e) ==
    IF "t" \notin DOMAIN e THEN {}
    ELSE CASE e.t \in {"Paren", "Interpolation"} -> {e.inner}
           [] e.t = "Unary" -> {e.expr}
           [] e.t = "Binary" -> {e.lhs, e.rhs}
           [] e.t = "FnApp" -> {e.function, e.argument}
           [] e.t = "Proj" -> {e.base, e.attr} \cup ToSet(e.fallback)
           [] e.t = "AttrPath" -> ToSet(e.segments)
           [] e.t = "If" -> {e.cond, e.body, e.fallback}
           [] e.t = "With" -> {e.with, e.expr}
           [] e.t = "Assert" -> {e.cond, e.expr}
           [] e.t = "FnDecl" -> {e.body}
           [] e.t = "BindSimple" -> {e.attr, e.expr}
           [] OTHER -> {}

Within(inner, outer) == outer[1] <= inner[1] /\ inner[2] <= outer[2]

\* Every node of the tree lies in the range and encloses its children.
RECURSIVE SpansNest(_, _)
SpansNest(e, range) ==
    /\ Within(e.span, range)
    /\ \A c \in Children(e) : Within(c.span, e.span) /\ SpansNest(c, range)

\* The text of n tokens, one space after each, is 2 * n bytes long.
SourceRange == <<0, 2 * Len(input)>>

\* The trees a run returned: none, or the one of its value.
Returned ==
    CASE res.tag # "Ok" -> {}
      [] op = "parse_expr_partial" -> ToSet(res.out.value)
      [] op \in {"parse_expr", "simple"} -> {res.out}
      [] OTHER -> {}

RECURSIVE Height(_)
Height(e) ==
    IF Children(e) = {} THEN 0
    ELSE 1 + CHOOSE h \in {Height(c) : c \in Children(e)} :
                 \A c \in Children(e) : Height(c) <= h

\* C11: in every tree the parser returns, each node's span lies within the
\* source byte range and encloses the span of each of its children.
C11_SpansNest == \A e \in Returned : SpansNest(e, SourceRange)

\* A binding came back whose value is an operator node over its operands.
C11_Witness == op = "simple" /\ res.tag = "Ok" /\ Height(res.out) >= 2

\* C12: round-trip law: when the strict parser returns Ok(e), strictly parsing
\* the printed text of e returns Ok(e') with e' equal to e.
C12_RoundTrip ==
    (op = "parse_expr" /\ res.tag = "Ok") =>
        /\ parse_expr(fmt(res.out)).tag = "Ok"
        /\ eq(parse_expr(fmt(res.out)).out, res.out)

(***************************************************************************)
(* The grouping section 4.2 of the specification gives to a chain          *)
(***************************************************************************)
\* The level of a binary operator, the loosest first.
Rank(lexeme) ==
    CASE lexeme = "||" -> 1
      [] lexeme = "&&" -> 2
      [] lexeme = "//" -> 3
      [] lexeme \in {"+", "-"} -> 4
      [] lexeme \in {"*", "/"} -> 5
      [] lexeme = "++" -> 6

RightAssociative(lexeme) == lexeme \in {"//", "++"}

BinaryOpOf(lexeme) == CHOOSE binop \in {"Add", "Sub", "Mul", "Div", "Or", "And", "Update",
                                        "Concat"} : BinaryOpText(binop) = lexeme

Leaf(lexeme) ==
    IF KindOf(lexeme) = "Identifier" THEN ExprIdent(lexeme, <<0, 0>>)
    ELSE ExprLiteral(lexeme, <<0, 0>>)

\* Operands at the odd places, operators of the set at the even places.
IsChain(text, lexemes) ==
    /\ Len(text) % 2 = 1
    /\ \A i \in 1..Len(text) :
           IF i % 2 = 1 THEN text[i] \in Operands ELSE text[i] \in lexemes

\* The place where the chain splits at the top: an operator of the loosest
\* level in it, the first one when the level groups to the right, the last
\* one when it groups to the left.
SplitAt(chain) ==
    LET places == {i \in 1..Len(chain) : i % 2 = 0}
        loosest == {i \in places : \A j \in places : Rank(chain[i]) <= Rank(chain[j])}
    IN  IF \E i \in loosest : RightAssociative(chain[i])
        THEN CHOOSE i \in loosest : \A j \in loosest : i <= j
        ELSE CHOOSE i \in loosest : \A j \in loosest : i >= j

RECURSIVE Expected(_)
Expected(chain) ==
    IF Len(chain) = 1 THEN Leaf(chain[1])
    ELSE ExprBinary(BinaryOpOf(chain[SplitAt(chain)]),
                    Expected(SubSeq(chain, 1, SplitAt(chain) - 1)),
                    Expected(SubSeq(chain, SplitAt(chain) + 1, Len(chain))),
                    <<0, 0>>)

\* The parse gave this tree, and no diagnostics.
Gives(tree) ==
    /\ res.tag = "Ok"
    /\ res.out.errors = <<>>
    /\ res.out.value # None
    /\ eq(res.out.value[1], tree)

\* C13: in a chain of operands joined by `+ - * /`, product operators group
\* tighter than sum operators and operators of one level group left to right,
\* with no diagnostics.
C13_SumProductGrouping ==
    (op = "parse_expr_partial" /\ IsChain(input, {"+", "-", "*", "/"})) =>
        Gives(Expected(input))

\* A sum whose right operand is a product, and a sum of a sum.
C13_Witness ==
    /\ op = "parse_expr_partial"
    /\ IsChain(input, {"+", "-", "*", "/"})
    /\ Len(input) = 5
    /\ input[2] \in {"+", "-"}
    /\ input[4] \in {"*", "/"}
    /\ res.tag = "Ok"
    /\ res.out.value[1].rhs.t = "Binary"

\* C14: logical OR binds looser than logical AND: `a || b && c` parses as
\* Binary(Or, a, Binary(And, b, c)) and `a && b || c` as
\* Binary(Or, Binary(And, a, b), c).
C14_OrLooserThanAnd ==
    (op = "parse_expr_partial" /\ IsChain(input, {"||", "&&"})) => Gives(Expected(input))

\* C15: `//` and `++` are right-associative with the operands in source order:
\* `a // b // c` parses as Binary(Update, a, Binary(Update, b, c)) and `a ++ b`
\* as Binary(Concat, a, b).
C15_UpdateConcatRightAssociative ==
    (op = "parse_expr_partial" /\ (IsChain(input, {"//"}) \/ IsChain(input, {"++"}))) =>
        Gives(Expected(input))

\* The nested Unary nodes of prefix operators before an operand.
RECURSIVE ExpectedUnary(_)
ExpectedUnary(text) ==
    IF Len(text) = 1 THEN Leaf(text[1])
    ELSE ExprUnary(IF text[1] = "-" THEN "Neg" ELSE "Not", ExpectedUnary(Tail(text)), <<0, 0>>)

\* C16: any sequence of prefix operators `-` and `!` before an operand parses,
\* without diagnostics, as nested Unary nodes in source order.
C16_PrefixOperatorsNest ==
    (op = "parse_expr_partial" /\ input \in PrefixInputs) => Gives(ExpectedUnary(input))

\* The segments of the path of a projection text, without the dots.
Segments(text) == [i \in 1..((Len(text) - 1) \div 2) |-> text[2 * i + 1]]

\* C17: a projection followed by `or fallback` parses as one Proj node over
\* the whole path whose fallback is present: the `or` and the fallback
\* expression are consumed.
C17_ProjectionFallback ==
    LET n == Len(input)
        path == SubSeq(input, 1, n - 2)
    IN  (op = "parse_expr_partial" /\ input \in PathInputs /\ input[n - 1] = "or") =>
            /\ res.tag = "Ok"
            /\ res.out.errors = <<>>
            /\ res.out.value # None
            /\ res.out.value[1].t = "Proj"
            /\ eq(res.out.value[1].base, Leaf(path[1]))
            /\ Len(res.out.value[1].attr.segments) = Len(Segments(path))
            /\ \A i \in 1..Len(Segments(path)) :
                   eq(res.out.value[1].attr.segments[i], Leaf(Segments(path)[i]))
            /\ res.out.value[1].fallback # None
            /\ eq(res.out.value[1].fallback[1], Leaf(input[n]))

\* C18: a binary operator whose right operand is missing at the end of the
\* input still yields a binary node: `1 + ` parses as Binary(Add, 1,
\* Error(span)) with exactly one unexpected-Eof diagnostic.
C18_TrailingOperator ==
    (/\ op = "parse_expr_partial"
     /\ Len(input) = 2
     /\ input[1] \in Operands
     /\ input[2] \in {"+", "-"}) =>
        /\ res.tag = "Ok"
        /\ res.out.value # None
        /\ res.out.value[1].t = "Binary"
        /\ res.out.value[1].op = BinaryOpOf(input[2])
        /\ eq(res.out.value[1].lhs, Leaf(input[1]))
        /\ res.out.value[1].rhs.t = "Error"
        /\ Len(res.out.errors) = 1
        /\ res.out.errors[1] = UnexpectedError("<eof>", res.out.value[1].rhs.span)

\* The tokens before the first Eof.
BeforeEof(tokens) == SubSeq(tokens, 1, FirstOf("Eof", tokens) - 1)

\* The diagnostics for the missing closing delimiter.
Unclosed(errs) == {i \in 1..Len(errs) : errs[i].kind = "Expected" /\ errs[i].token = "RBracket"}

NotComment(lexeme) == KindOf(lexeme) # "Comment"

\* C20: inserting a comment token between two adjacent tokens of an input
\* does not change the parsed tree or add diagnostics: a comment after a
\* binary or unary operator, or between a function and its argument, is
\* skipped.
C20_CommentsSkipped ==
    LET plain == parse_expr_partial(SelectSeq(input, NotComment))
    IN  (/\ op = "parse_expr_partial"
         /\ \E i \in 2..(Len(input) - 1) : ~NotComment(input[i])
         /\ NotComment(input[1])
         /\ NotComment(input[Len(input)])
         /\ plain.tag = "Ok"
         /\ plain.out.errors = <<>>) =>
            Gives(plain.out.value[1])

(***************************************************************************)
(* Partial's own methods applied to every Partial over small sets          *)
(***************************************************************************)
\* The largest number of items of an iterator of Partials.
MaxItems == 2

\* A receiver Partial<Vec<T>> and items Partial<T>, each with or without a
\* value and with or without a diagnostic.
InitPartial ==
    LET stacks == {<<>>, <<UnexpectedError("x", <<0, 1>>)>>, <<UnexpectedError("y", <<2, 3>>)>>}
    IN  /\ input \in UNION {[1..n -> [value : {None, Some("v"), Some("w")}, errors : stacks]] :
                                n \in 0..MaxItems}
        /\ arg \in [value : {None, Some(<<>>), Some(<<"u">>)}, errors : stacks]
        /\ op = "ready"
    /\ res = Idle

\* self.flat_map(|f| g.map(|g| (f, g))), the closure pair_partial passes.
RunFlatMap ==
    /\ input # <<>>
    /\ Run("flat_map", flat_map(arg, <<"pair_with", input[1]>>))

RunExtend == Run("extend", extend(arg, input))

RunFromIter == Run("from_iter", from_iter(input))

NextPartial ==
    \/ RunFlatMap
    \/ RunExtend
    \/ RunFromIter

SpecPartial == InitPartial /\ [][NextPartial]_vars

\* The values of the items that hold one, in order.
RECURSIVE PresentValues(_)
PresentValues(iter) ==
    IF iter = <<>> THEN <<>>
    ELSE (IF Head(iter).value # None THEN <<Head(iter).value[1]>> ELSE <<>>)
         \o PresentValues(Tail(iter))

\* The diagnostics of the items, in order.
RECURSIVE AllDiagnostics(_)
AllDiagnostics(iter) ==
    IF iter = <<>> THEN <<>> ELSE Head(iter).errors \o AllDiagnostics(Tail(iter))

\* C22: p.flat_map(f) on a p holding v has the value of f(v) and p's
\* diagnostics followed by those of f(v); on a p without a value it is
\* (None, p's diagnostics), whatever f is.
C22_FlatMap ==
    op = "flat_map" =>
        IF arg.value # None
        THEN /\ res.value = IF input[1].value # None
                            THEN Some(<<arg.value[1], input[1].value[1]>>)
                            ELSE None
             /\ res.errors = arg.errors \o input[1].errors
        ELSE res = [value |-> None, errors |-> arg.errors]

C22_Witness ==
    /\ op = "flat_map"
    /\ arg.value # None
    /\ arg.errors # <<>>
    /\ input[1].errors # <<>>
    /\ input[1].errors # arg.errors
    /\ res.value # None

\* C23: extending a Partial that holds a list gives the old list followed
\* by the values of the items that hold one, in order, and the old
\* diagnostics followed by every item's, in order: an item without a value
\* adds its diagnostics only.
C23_Extend ==
    (op = "extend" /\ arg.value # None) =>
        /\ res.value = Some(arg.value[1] \o PresentValues(input))
        /\ res.errors = arg.errors \o AllDiagnostics(input)

C23_Witness ==
    /\ op = "extend"
    /\ arg.value # None
    /\ arg.value[1] # <<>>
    /\ arg.errors # <<>>
    /\ Len(input) = 2
    /\ input[1].value = None
    /\ input[1].errors # <<>>
    /\ input[2].value # None
    /\ input[2].errors \notin {<<>>, input[1].errors}

\* C29: from_iter over a sequence of Partials gives what extending an
\* error-free Partial holding the empty list with that sequence gives: the
\* value is always present and lists the items' values in order, the
\* diagnostics are the items' diagnostics in order.
C29_FromIterIsExtend ==
    op = "from_iter" =>
        /\ res = extend(new(Some(<<>>)), input)
        /\ res.value = Some(PresentValues(input))
        /\ res.errors = AllDiagnostics(input)

C29_Witness ==
    /\ op = "from_iter"
    /\ input # <<>>
    /\ \A i \in 1..Len(input) : input[i].value = None /\ input[i].errors # <<>>
    /\ res.value = Some(<<>>)

\* C24: the byte span of a fragment at offset o with byte length n is the
\* half-open range [o, o + n), so a fragment that is not empty has a span
\* that is not empty.
C24_HalfOpenByteSpan ==
    op = "to_byte_span" =>
        LET fragment == Fragment(arg[1])
            o == to_span(fragment)[1]
            n == input_len(fragment)
        IN  /\ res = <<o, o + n>>
            /\ n > 0 => res[2] > res[1]

\* C27: many_till_partial and separated_list_partial return on every finite
\* token view, the empty view and a view that does not end with Eof
\* included, when every successful element parse consumes a token.
C27_ListLoopsTerminate ==
    op \in {"many_till_partial", "separated_list_partial"} => res.tag # "Diverges"

\* C26: on every input separated_list_partial(sep, term, f) returns what
\* the composition of its doc comment returns: f once, then
\* many_till_partial(preceded(sep, f), term) on the rest, the two combined
\* with flat_map; also when the first element fails.
C26_SeparatedListIsComposition ==
    op = "separated_list_partial" =>
        res = separated_list_composition(Sep, Term, F, Lex(input))

(***************************************************************************)
(* PartialEq applied to every pair of nodes of a small set                 *)
(***************************************************************************)
\* Identifiers, `a + b` and `a - b`, `a.b` with and without an `or`
\* fallback, and `{ a }: a` with and without a default, `...` and `@b`, each
\* under two spans.
Nodes ==
    LET spans == {<<0, 1>>, <<2, 9>>}
        a == ExprIdent("a", <<0, 1>>)
        names == {a, ExprIdent("b", <<0, 1>>)}
    IN  names
        \cup {ExprBinary(binop, a, rhs, span) :
                  binop \in {"Add", "Sub"}, rhs \in names, span \in spans}
        \cup {ExprProj(a, AttrPath(<<ExprIdent("b", <<2, 3>>)>>), fallback, span) :
                  fallback \in {None} \cup {Some(n) : n \in names}, span \in spans}
        \cup {FnDeclFormals(<<Formal(ExprIdent("a", <<2, 3>>), default, <<2, 3>>)>>,
                            ellipsis, extra, ExprIdent("a", <<8, 9>>), span) :
                  default \in {None, Some(ExprIdent("b", <<4, 5>>))},
                  ellipsis \in {None, Some(<<5, 8>>)},
                  extra \in {None, Some(ExprIdent("b", <<7, 8>>))},
                  span \in spans}

InitEq ==
    /\ input \in Nodes \X Nodes
    /\ op = "ready"
    /\ arg = None
    /\ res = Idle

RunEq == Run("eq", eq(input[1], input[2]))

SpecEq == InitEq /\ [][RunEq]_vars

\* A node with its spans taken out: every other component, in order.
RECURSIVE Unspanned(_)
Unspanned(e) ==
    CASE e.t = "Ident" -> <<"Ident", e.name>>
      [] e.t = "Binary" -> <<"Binary", e.op, Unspanned(e.lhs), Unspanned(e.rhs)>>
      [] e.t = "AttrPath" ->
             <<"AttrPath", [i \in 1..Len(e.segments) |-> Unspanned(e.segments[i])]>>
      [] e.t = "Proj" ->
             <<"Proj", Unspanned(e.base), Unspanned(e.attr),
               IF e.fallback = None THEN None ELSE Some(Unspanned(e.fallback[1]))>>
      [] e.t = "Formal" ->
             <<"Formal", Unspanned(e.name),
               IF e.default = None THEN None ELSE Some(Unspanned(e.default[1]))>>
      [] e.t = "FnDeclFormals" ->
             <<"FnDeclFormals", [i \in 1..Len(e.formals) |-> Unspanned(e.formals[i])],
               e.ellipsis # None,
               IF e.extra = None THEN None ELSE Some(Unspanned(e.extra[1])),
               Unspanned(e.body)>>

\* C28: equality of nodes is structural and ignores only the spans: a node
\* equals itself (a formals lambda without `...` too), and two nodes that
\* differ in a component other than a span (the `or` fallback of a
\* projection, the `@` binder or the ellipsis of a formals lambda) are not
\* equal.
C28_StructuralEquality ==
    op = "eq" => (res <=> Unspanned(input[1]) = Unspanned(input[2]))

(***************************************************************************)
(* The source-file entry points and a binding applied to texts with and    *)
(* without leading comments                                                *)
(***************************************************************************)
\* The largest number of lines of a leading comment.
MaxLines == 2

\* `path = operand ;` after a run of line comments.
CommentedBindInputs ==
    {c \o q \o <<"=", x, ";">> :
        c \in UNION {[1..n -> {"#x", "#y"}] : n \in 0..MaxLines},
        q \in Paths(0) \cup Paths(1), x \in Operands}

InitFile ==
    /\ input \in Inputs({"#x", "#y", "a", "1", "+"}) \cup CommentedBindInputs
    /\ op = "ready"
    /\ arg = None
    /\ res = Idle

ParseSourceFile == Run("parse_source_file", parse_source_file(input))

ParseSourceFilePartial == Run("parse_source_file_partial", parse_source_file_partial(input))

NextFile ==
    \/ ParseSourceFile
    \/ ParseSourceFilePartial
    \/ RunSimple

SpecFile == InitFile /\ [][NextFile]_vars

\* The SourceFile a source-file entry point returned, if it returned one.
FileOf ==
    CASE res.tag # "Ok" -> None
      [] op = "parse_source_file" -> Some(res.out)
      [] op = "parse_source_file_partial" -> res.out.value
      [] OTHER -> None

\* C21: the leading doc comment of a source file is optional in both entry
\* points: on a text that holds only an expression, parse_source_file and
\* parse_source_file_partial both succeed with a SourceFile whose comment is
\* absent and whose expr is the parsed expression.
C21_DocCommentOptional ==
    (/\ op \in {"parse_source_file", "parse_source_file_partial"}
     /\ \A i \in 1..Len(input) : KindOf(input[i]) # "Comment"
     /\ parse_expr(input).tag = "Ok") =>
        /\ FileOf # None
        /\ FileOf[1].comment = None
        /\ FileOf[1].expr = parse_expr(input).out

\* The number of comment lines a text starts with.
LeadingComments(text) ==
    CHOOSE n \in 0..Len(text) :
        /\ \A i \in 1..n : KindOf(text[i]) = "Comment"
        /\ n < Len(text) => KindOf(text[n + 1]) # "Comment"

\* Where the `=` of a binding's text is.
EqualsAt(text) == CHOOSE i \in 1..Len(text) : text[i] = "="

\* The path segments of a binding's text, in source order.
PathOf(text) ==
    LET n == LeadingComments(text)
    IN  [i \in 1..((EqualsAt(text) - n) \div 2) |-> text[n + 2 * i - 1]]

\* The value of a binding's text: what stands between `=` and `;`.
ValueOf(text) == SubSeq(text, EqualsAt(text) + 1, Len(text) - 1)

\* C25: simple parses `path = expr;` into a BindSimple with the path's
\* segments in source order, the parsed value and no comment; after a run
\* of line comments with only whitespace between them the BindSimple has one
\* comment, whose text is the lines' texts joined by newlines.
C25_SimpleBind ==
    (op = "simple" /\ input \in CommentedBindInputs) =>
        LET n == LeadingComments(input)
            b == res.out
        IN  /\ res.tag = "Ok"
            /\ [i \in 1..Len(b.attr.segments) |-> b.attr.segments[i].text] = PathOf(input)
            /\ eq(b.expr, parse_expr(ValueOf(input)).out)
            /\ n = 0 => b.comment = None
            /\ n > 0 =>
                   /\ b.comment # None
                   /\ Len(b.comment[1].text) = 2 * n - 1
                   /\ \A i \in 1..n : b.comment[1].text[2 * i - 1] = CommentText(input[i])
                   /\ \A i \in 1..(n - 1) : b.comment[1].text[2 * i] = "\n"

C25_Witness ==
    /\ op = "simple"
    /\ input \in CommentedBindInputs
    /\ LeadingComments(input) = 2
    /\ input[1] # input[2]
    /\ Len(PathOf(input)) = 2
    /\ res.tag = "Ok"
    /\ res.out.comment # None

(***************************************************************************)
(* Tokens (lexer/tokens.rs): a view with its own slice and the start..end  *)
(* range it prints, under take, take_split and slice                       *)
(***************************************************************************)
View(tokens, start, end) == [tokens |-> tokens, start |-> start, end |-> end]

\* Tokens::new.
TokensNew(tokens) == View(tokens, 0, Len(tokens))

\* InputTake::take.
TokensTake(self, count) == View(SubSeq(self.tokens, 1, count), 0, count)

\* InputTake::take_split: (suffix, prefix).
take_split(self, count) ==
    LET prefix == SubSeq(self.tokens, 1, count)
        suffix == SubSeq(self.tokens, count + 1, Len(self.tokens))
    IN  <<View(suffix, 0, Len(suffix)), View(prefix, 0, Len(prefix))>>

\* Slice<Range<usize>>: range is <<range.start, range.end>>.
slice(self, range) ==
    View(SubSeq(self.tokens, range[1] + 1, range[2]),
         self.start + range[1], self.start + range[2])

\* Slice<RangeTo<usize>>.
slice_to(self, end) == slice(self, <<0, end>>)

\* Slice<RangeFrom<usize>>.
slice_from(self, start) == slice(self, <<start, self.end - self.start>>)

\* Slice<RangeFull>.
slice_full(self) == View(self.tokens, self.start, self.end)

\* Debug and Display: `&self.tokens[self.start..self.end]`, which panics
\* when the range is not within the slice.
fmt_slice(self) ==
    IF self.start <= self.end /\ self.end <= Len(self.tokens)
    THEN Ok(<<>>, SubSeq(self.tokens, self.start + 1, self.end))
    ELSE Panic("range end index out of range for slice")

InitView ==
    /\ input \in Inputs({"a", "+"})
    /\ op = "new"
    /\ arg = TokensNew(Lex(input))
    /\ res = Idle

Step(name, view) ==
    /\ op' = name
    /\ arg' = view
    /\ res' = Idle
    /\ UNCHANGED input

Take == \E count \in 0..Len(arg.tokens) : Step("take", TokensTake(arg, count))

TakeSplit ==
    \E count \in 0..Len(arg.tokens), i \in 1..2 :
        Step("take_split", take_split(arg, count)[i])

Slice ==
    \E a \in 0..Len(arg.tokens), b \in 0..Len(arg.tokens) :
        a <= b /\ Step("slice", slice(arg, <<a, b>>))

SliceTo == \E b \in 0..Len(arg.tokens) : Step("slice_to", slice_to(arg, b))

\* A start the range start..(end - start) is a valid range of the slice for.
SliceFrom ==
    \E a \in 0..Len(arg.tokens) :
        /\ a <= arg.end - arg.start
        /\ arg.end - arg.start <= Len(arg.tokens)
        /\ Step("slice_from", slice_from(arg, a))

SliceFull == Step("slice_full", slice_full(arg))

Format(name) ==
    /\ op' = name
    /\ res' = fmt_slice(arg)
    /\ UNCHANGED <<input, arg>>

NextView ==
    \/ Take
    \/ TakeSplit
    \/ Slice
    \/ SliceTo
    \/ SliceFrom
    \/ SliceFull
    \/ Format("Debug")
    \/ Format("Display")

SpecView == InitView /\ [][NextView]_vars

\* C30: for every view reached from Tokens::new by take, take_split and
\* slice, start..end is a valid range of the view's own token slice, and
\* Debug and Display index within that slice and show exactly the view's
\* tokens.
C30_FormatWithinBounds ==
    /\ arg.start <= arg.end
    /\ arg.end <= Len(arg.tokens)
    /\ arg.end - arg.start = Len(arg.tokens)
    /\ op \in {"Debug", "Display"} => (res.tag = "Ok" /\ res.out = arg.tokens)

====
